---- MODULE Spec2Model ----
(***************************************************************************)
(* Resource synthesis of two Kusion module generators:                     *)
(*   - k8s_manifest: K8sManifest.Generate / CompleteConfig / appendManifest *)
(*   - postgres (Alicloud): PostgreSQL.GenerateAlicloudResources            *)
(* Each generator is its own plugin binary (package main); the variable     *)
(* plugin says which binary a behaviour is about.                           *)
(*                                                                         *)
(* Go values: a nil pointer / nil slice / nil error is Nil (the empty       *)
(* tuple) and a non-nil one is Some(v) (a one-element tuple).  Strings are  *)
(* TLA+ strings, concatenated with \o as Go's + does.                       *)
(***************************************************************************)
EXTENDS Naturals, Sequences, FiniteSets, TLC

VARIABLES
    plugin,        \* which plugin binary runs: "k8s_manifest" or "postgres"
    mYAML,         \* what the file system holds at the path "m.yaml"
    Paths,         \* K8sManifest.Paths of the generator instance
    MergedPaths,   \* K8sManifest.MergedPaths of the generator instance (key set)
    request,       \* the request of the Generate call the host is looking at
    result,        \* what that call returned (NoResult: no call to look at)
    visited,       \* the merged paths that call ranged over, in order
    pgRequest,     \* the input of the latest GenerateAlicloudResources call
    pgResult       \* what the latest GenerateAlicloudResources call returned

vars == <<plugin, mYAML, Paths, MergedPaths, request, result, visited, pgRequest, pgResult>>

k8sVars == <<Paths, MergedPaths, request, result, visited>>
pgVars == <<pgRequest, pgResult>>

-----------------------------------------------------------------------------
(* Bounds *)

MaxDevPaths == 2       \* length of a developer paths list
MaxSecurityIPs == 2    \* length of a security-ip allow-list

-----------------------------------------------------------------------------
(* Go values *)

Nil == << >>
Some(v) == <<v>>
Value(o) == o[1]

SeqsUpTo(S, n) == UNION {[1..m -> S] : m \in 0..n}

Range(s) == {s[i] : i \in DOMAIN s}

\* The orders in which a Go `range` over a map with key set S may iterate.
RECURSIVE MapRangeOrders(_)
MapRangeOrders(S) ==
    IF S = {}
    THEN {<< >>}
    ELSE UNION {{<<k>> \o o : o \in MapRangeOrders(S \ {k})} : k \in S}

-----------------------------------------------------------------------------
(* The file system the k8s_manifest generator reads *)

Deployment ==
    [apiVersion |-> "apps/v1", kind |-> "Deployment",
     metadata |-> [name |-> "web", namespace |-> "default"]]

Service ==
    [apiVersion |-> "v1", kind |-> "Service",
     metadata |-> [name |-> "web", namespace |-> "default"]]

ConfigMap ==
    [apiVersion |-> "v1", kind |-> "ConfigMap", metadata |-> [name |-> "cfg"]]

ConfigMapEmptyNS ==
    [apiVersion |-> "v1", kind |-> "ConfigMap",
     metadata |-> [name |-> "cfg", namespace |-> ""]]

NoKind == [apiVersion |-> "v1", metadata |-> [name |-> "broken"]]

\* A blank document between two `---` separators decodes to an empty map.
BlankDoc == [f \in {} |-> ""]

Dir(entries) ==
    [type |-> "dir", ext |-> "", walk |-> entries, docs |-> << >>, malformed |-> FALSE]

File(extension, documents, bad) ==
    [type |-> "file", ext |-> extension, walk |-> << >>, docs |-> documents,
     malformed |-> bad]

Missing ==
    [type |-> "missing", ext |-> "", walk |-> << >>, docs |-> << >>, malformed |-> FALSE]

\* What may be at "m.yaml": nothing, a file that is not YAML, a manifest
\* without a kind, or a manifest with the id of one in d/b.YML.
MYAMLStates == {"missing", "malformed", "nokind", "manifest"}

MYAMLFile ==
    CASE mYAML = "malformed" -> File(".yaml", << >>, TRUE)
      [] mYAML = "nokind"    -> File(".yaml", <<NoKind>>, FALSE)
      [] mYAML = "manifest"  -> File(".yaml", <<ConfigMapEmptyNS>>, FALSE)
      [] OTHER               -> Missing

\* walk is the order filepath.WalkDir visits a directory: the root itself,
\* then its entries in lexical order.
FS ==
    [p \in {"d", "d/a.yaml", "d/b.YML", "d/n.txt", "m.yaml"} |->
        CASE p = "d"        -> Dir(<<"d", "d/a.yaml", "d/b.YML", "d/n.txt">>)
          [] p = "d/a.yaml" -> File(".yaml", <<Deployment, BlankDoc, Service>>, FALSE)
          [] p = "d/b.YML"  -> File(".YML", <<ConfigMap>>, FALSE)
          [] p = "d/n.txt"  -> File(".txt", << >>, TRUE)
          [] OTHER          -> MYAMLFile]

\* The paths a configuration may name.
ConfigPaths == {"d", "d/a.yaml", "m.yaml"}

FileExtensions == <<".yaml", ".yml", ".json">>

\* strings.EqualFold on the extensions that occur.
Lower(s) ==
    CASE s = ".YML" -> ".yml"
      [] s = ".YAML" -> ".yaml"
      [] s = ".JSON" -> ".json"
      [] OTHER -> s

EqualFold(s, t) == Lower(s) = Lower(t)

ignoreFile(path, extensions) ==
    IF Len(extensions) = 0
    THEN FALSE
    ELSE ~ \E i \in DOMAIN extensions : EqualFold(extensions[i], FS[path].ext)

-----------------------------------------------------------------------------
(* Requests of the k8s_manifest generator *)

\* A config fragment: hasPaths says whether it has a "paths" key, isList
\* whether the value of that key decodes as a list of strings.
Config(hasPaths, isList, paths) ==
    [hasPaths |-> hasPaths, isList |-> isList, paths |-> paths]

\* Developer fragments: none, one without "paths", one whose "paths" is not
\* a list, and one per paths list.
DevConfigs ==
    {Nil, Some(Config(FALSE, TRUE, << >>)), Some(Config(TRUE, FALSE, << >>))}
        \cup {Some(Config(TRUE, TRUE, l)) : l \in SeqsUpTo(ConfigPaths, MaxDevPaths)}

\* Platform fragments: none, one whose "paths" is not a list, and one per
\* single path.
PlatformConfigs ==
    {Nil, Some(Config(TRUE, FALSE, << >>))}
        \cup {Some(Config(TRUE, TRUE, <<p>>)) : p \in ConfigPaths}

Requests == [DevConfig : DevConfigs, PlatformConfig : PlatformConfigs]

NoRequest == [DevConfig |-> Nil, PlatformConfig |-> Nil]

-----------------------------------------------------------------------------
(* K8sManifest.CompleteConfig *)

\* yaml.Unmarshal of a fragment into a K8sManifest whose Paths field holds
\* `paths`: a "paths" key replaces the field, a fragment without the key
\* leaves it as it was, a value that is not a list is a type error.
Unmarshal(cfg, paths) ==
    IF cfg.hasPaths /\ ~cfg.isList
    THEN [err |-> Some("yaml: unmarshal errors"), Paths |-> paths]
    ELSE [err |-> Nil, Paths |-> IF cfg.hasPaths THEN cfg.paths ELSE paths]

\* The developer half: decodes into the generator k itself and adds k.Paths
\* to k.MergedPaths.
CompleteDevConfig(paths, merged, devConfig) ==
    IF devConfig = Nil
    THEN [err |-> Nil, Paths |-> paths, MergedPaths |-> merged]
    ELSE LET u == Unmarshal(Value(devConfig), paths)
         IN  IF u.err # Nil
             THEN [err |-> u.err, Paths |-> u.Paths, MergedPaths |-> merged]
             ELSE [err |-> Nil, Paths |-> u.Paths,
                   MergedPaths |-> merged \cup Range(u.Paths)]

\* The platform half: decodes into a fresh tmpK and adds the paths that
\* k.MergedPaths does not hold yet.
CompletePlatformConfig(paths, merged, platformConfig) ==
    IF platformConfig = Nil
    THEN [err |-> Nil, Paths |-> paths, MergedPaths |-> merged]
    ELSE LET u == Unmarshal(Value(platformConfig), << >>)
         IN  IF u.err # Nil
             THEN [err |-> u.err, Paths |-> paths, MergedPaths |-> merged]
             ELSE [err |-> Nil, Paths |-> paths,
                   MergedPaths |-> merged \cup {p \in Range(u.Paths) : p \notin merged}]

CompleteConfig(paths, merged, devConfig, platformConfig) ==
    LET dev == CompleteDevConfig(paths, merged, devConfig)
    IN  IF dev.err # Nil
        THEN dev
        ELSE CompletePlatformConfig(dev.Paths, dev.MergedPaths, platformConfig)

ValidateConfig(merged) ==
    IF Cardinality(merged) = 0
    THEN Some("k8s manifest paths should not be empty")
    ELSE Nil

-----------------------------------------------------------------------------
(* appendManifest and the directory walk *)

\* manifestYAMLFiles is a Go map from file path to the documents decoded
\* from it: a function whose domain is the set of keys.
NoFiles == [f \in {} |-> << >>]

DocsOf(manifestYAMLFiles, filePath) ==
    IF filePath \in DOMAIN manifestYAMLFiles THEN manifestYAMLFiles[filePath] ELSE << >>

RECURSIVE AppendDocs(_, _, _, _)
AppendDocs(filePath, docs, i, manifestYAMLFiles) ==
    IF i > Len(docs)
    THEN manifestYAMLFiles
    ELSE IF DOMAIN docs[i] = {}
         THEN AppendDocs(filePath, docs, i + 1, manifestYAMLFiles)
         ELSE AppendDocs(filePath, docs, i + 1,
                  [f \in DOMAIN manifestYAMLFiles \cup {filePath} |->
                      IF f = filePath
                      THEN Append(DocsOf(manifestYAMLFiles, filePath), docs[i])
                      ELSE manifestYAMLFiles[f]])

appendManifest(filePath, manifestYAMLFiles) ==
    IF FS[filePath].type = "missing"
    THEN [err |-> Some("open " \o filePath), files |-> manifestYAMLFiles]
    ELSE IF FS[filePath].type = "dir" \/ FS[filePath].malformed
         THEN [err |-> Some("error parsing " \o filePath), files |-> manifestYAMLFiles]
         ELSE [err |-> Nil,
               files |-> AppendDocs(filePath, FS[filePath].docs, 1, manifestYAMLFiles)]

RECURSIVE WalkDir(_, _, _)
WalkDir(entries, i, manifestYAMLFiles) ==
    IF i > Len(entries)
    THEN [err |-> Nil, files |-> manifestYAMLFiles]
    ELSE IF ignoreFile(entries[i], FileExtensions)
         THEN WalkDir(entries, i + 1, manifestYAMLFiles)
         ELSE LET r == appendManifest(entries[i], manifestYAMLFiles)
              IN  IF r.err # Nil THEN r ELSE WalkDir(entries, i + 1, r.files)

\* The first loop of Generate, over the merged paths in the order `order`.
RECURSIVE VisitPaths(_, _, _)
VisitPaths(order, i, manifestYAMLFiles) ==
    IF i > Len(order)
    THEN [err |-> Nil, files |-> manifestYAMLFiles, visited |-> order]
    ELSE LET path == order[i]
             r == IF FS[path].type = "missing"
                  THEN [err |-> Some("stat " \o path), files |-> manifestYAMLFiles]
                  ELSE IF FS[path].type = "dir"
                       THEN WalkDir(FS[path].walk, 1, manifestYAMLFiles)
                       ELSE appendManifest(path, manifestYAMLFiles)
         IN  IF r.err # Nil
             THEN [err |-> r.err, files |-> r.files, visited |-> SubSeq(order, 1, i)]
             ELSE VisitPaths(order, i + 1, r.files)

-----------------------------------------------------------------------------
(* The second loop of Generate: documents to resources *)

\* The type assertions of Generate panic on a document that lacks one of
\* these fields.
HasCoordinates(obj) ==
    /\ "apiVersion" \in DOMAIN obj
    /\ "kind" \in DOMAIN obj
    /\ "metadata" \in DOMAIN obj
    /\ "name" \in DOMAIN obj.metadata

Namespace(obj) ==
    IF "namespace" \in DOMAIN obj.metadata THEN obj.metadata.namespace ELSE ""

KusionID(obj) ==
    IF Namespace(obj) = ""
    THEN obj.apiVersion \o ":" \o obj.kind \o ":" \o obj.metadata.name
    ELSE obj.apiVersion \o ":" \o obj.kind \o ":" \o Namespace(obj) \o ":"
             \o obj.metadata.name

KubernetesResource(obj) ==
    [ID |-> KusionID(obj), Type |-> "Kubernetes", Attributes |-> obj]

\* The documents in the order the nested loops reach them.
RECURSIVE Documents(_, _, _)
Documents(fileOrder, i, manifestYAMLFiles) ==
    IF i > Len(fileOrder)
    THEN << >>
    ELSE manifestYAMLFiles[fileOrder[i]] \o Documents(fileOrder, i + 1, manifestYAMLFiles)

PanicError == Some("panic in k8s_manifest module generator but recovered")

\* The deferred recover: a panic leaves (nil, error).
BuildResources(fileOrder, manifestYAMLFiles) ==
    LET objs == Documents(fileOrder, 1, manifestYAMLFiles)
    IN  IF \E i \in DOMAIN objs : ~HasCoordinates(objs[i])
        THEN [response |-> Nil, err |-> PanicError]
        ELSE [response |-> Some([Resources |-> [i \in DOMAIN objs |-> KubernetesResource(objs[i])]]),
              err |-> Nil]

-----------------------------------------------------------------------------
(* K8sManifest.Generate *)

NoResult == [response |-> Nil, err |-> Nil]

\* What the two loops of Generate may return for the merged paths `merged`.
\* Both `range` loops run over Go maps, so each takes some order of the keys.
GenerateReturns(merged) ==
    UNION {LET v == VisitPaths(order, 1, NoFiles)
           IN  IF v.err # Nil
               THEN {[result |-> [response |-> Nil, err |-> v.err], visited |-> v.visited]}
               ELSE {[result |-> BuildResources(fileOrder, v.files), visited |-> v.visited] :
                        fileOrder \in MapRangeOrders(DOMAIN v.files)} :
           order \in MapRangeOrders(merged)}

\* One run of Generate on the generator instance that main started.
GenerateCall(req) ==
    /\ plugin = "k8s_manifest"
    /\ request' = req
    /\ LET cc == CompleteConfig(Paths, MergedPaths, req.DevConfig, req.PlatformConfig)
       IN  /\ Paths' = cc.Paths
           /\ MergedPaths' = cc.MergedPaths
           /\ IF cc.err # Nil
              THEN /\ result' = [response |-> Nil, err |-> cc.err]
                   /\ visited' = << >>
              ELSE \E ret \in GenerateReturns(cc.MergedPaths) :
                       /\ result' = ret.result
                       /\ visited' = ret.visited
    /\ UNCHANGED <<plugin, mYAML, pgVars>>

\* The host sends a request.
Generate(req) ==
    /\ result = NoResult
    /\ GenerateCall(req)

\* The host sends the request it has just been answered once more; the file
\* system has not changed in between.
Regenerate ==
    /\ result # NoResult
    /\ GenerateCall(request)

\* The host is done with the response; the generator instance lives on.
Respond ==
    /\ plugin = "k8s_manifest"
    /\ result # NoResult
    /\ request' = NoRequest
    /\ result' = NoResult
    /\ visited' = << >>
    /\ UNCHANGED <<plugin, mYAML, Paths, MergedPaths, pgVars>>

-----------------------------------------------------------------------------
(* The postgres module: providers, identities and references *)

ErrEmptyAlicloudProviderRegion == "empty alicloud provider region"

alicloudDBInstance == "alicloud_db_instance"
alicloudDBConnection == "alicloud_db_connection"
alicloudRDSAccount == "alicloud_rds_account"

defaultAlicloudProviderCfg ==
    [Source |-> "aliyun/alicloud", Version |-> "1.209.1", Region |-> ""]

randomProviderCfg ==
    [Source |-> "hashicorp/random", Version |-> "3.6.0", Region |-> ""]

\* module.TerraformProviderRegion: the region of the provider metadata.
TerraformProviderRegion(providerCfg) == providerCfg.Region

\* strings.Split(source, "/") on the provider sources that occur.
SplitSource(source) ==
    CASE source = "aliyun/alicloud" -> <<"aliyun", "alicloud">>
      [] source = "hashicorp/random" -> <<"hashicorp", "random">>
      [] OTHER -> <<source>>

\* module.TerraformResourceID: namespace:provider:type:name.
TerraformResourceID(providerCfg, resType, resName) ==
    LET src == SplitSource(providerCfg.Source)
    IN  IF providerCfg.Version = ""
        THEN [id |-> "", err |-> Some("empty terraform provider version")]
        ELSE IF Len(src) # 2
             THEN [id |-> "", err |-> Some("invalid terraform provider source")]
             ELSE [id |-> src[1] \o ":" \o src[2] \o ":" \o resType \o ":" \o resName,
                   err |-> Nil]

\* module.KusionPathDependency: the symbolic reference to an output
\* attribute of the resource with the given id.
KusionPathDependency(id, name) == "$kusion_path." \o id \o "." \o name

\* module.WrapTFResourceToKusionResource.
WrapTFResourceToKusionResource(providerCfg, region, resType, id, attrs) ==
    [ID |-> id, Type |-> "Terraform", Attributes |-> attrs,
     Extensions |-> [provider |-> providerCfg.Source, region |-> region,
                     resourceType |-> resType]]

\* The unrestricted-range marker of a security-ip allow-list.
IsPublicAccessible(securityIPs) ==
    \E i \in DOMAIN securityIPs : securityIPs[i] = "0.0.0.0/0"

\* strings.Contains(category, "serverless") on the categories that occur.
IsServerless(category) == category = "serverless_basic"

-----------------------------------------------------------------------------
(* The builders of the postgres module *)

\* GenerateTFRandomPassword: the random_password resource and its id.
GenerateTFRandomPassword(postgres, fault) ==
    LET id == TerraformResourceID(randomProviderCfg, "random_password",
                                  postgres.DatabaseName \o "-db")
    IN  IF fault = "password"
        THEN [res |-> Nil, id |-> "", err |-> Some("random password failed")]
        ELSE IF id.err # Nil
             THEN [res |-> Nil, id |-> "", err |-> id.err]
             ELSE [res |-> Some(WrapTFResourceToKusionResource(randomProviderCfg, "",
                                   "random_password", id.id,
                                   [length |-> 16, special |-> TRUE])),
                   id |-> id.id, err |-> Nil]

generateAlicloudDBInstance(postgres, alicloudProviderCfg, region) ==
    LET resAttrs == [category |-> postgres.Category,
                     engine |-> "PostgreSQL",
                     security_ips |-> postgres.SecurityIPs,
                     instance_name |-> postgres.DatabaseName,
                     serverless |-> IsServerless(postgres.Category)]
        id == TerraformResourceID(alicloudProviderCfg, alicloudDBInstance,
                                  postgres.DatabaseName)
    IN  IF id.err # Nil
        THEN [res |-> Nil, id |-> "", err |-> id.err]
        ELSE [res |-> Some(WrapTFResourceToKusionResource(alicloudProviderCfg, region,
                               alicloudDBInstance, id.id, resAttrs)),
              id |-> id.id, err |-> Nil]

generateAlicloudDBConnection(postgres, alicloudProviderCfg, region, dbInstanceID) ==
    LET resAttrs == [instance_id |-> KusionPathDependency(dbInstanceID, "id"),
                     port |-> 5432]
        id == TerraformResourceID(alicloudProviderCfg, alicloudDBConnection,
                                  postgres.DatabaseName)
    IN  IF id.err # Nil
        THEN [res |-> Nil, id |-> "", err |-> id.err]
        ELSE [res |-> Some(WrapTFResourceToKusionResource(alicloudProviderCfg, region,
                               alicloudDBConnection, id.id, resAttrs)),
              id |-> id.id, err |-> Nil]

generateAlicloudRDSAccount(postgres, alicloudProviderCfg, region, accountName, randomPasswordID, dbInstanceID) ==
    LET resAttrs == [account_name |-> accountName,
                     account_password |-> KusionPathDependency(randomPasswordID, "result"),
                     account_type |-> "Super",
                     db_instance_id |-> KusionPathDependency(dbInstanceID, "id")]
        id == TerraformResourceID(alicloudProviderCfg, alicloudRDSAccount,
                                  postgres.DatabaseName)
    IN  IF id.err # Nil
        THEN [res |-> Nil, err |-> id.err]
        ELSE [res |-> Some(WrapTFResourceToKusionResource(alicloudProviderCfg, region,
                               alicloudRDSAccount, id.id, resAttrs)),
              err |-> Nil]

\* GenerateDBSecret: the Kubernetes secret carrying the three values, and the
\* patcher that injects them as environment variables.
GenerateDBSecret(postgres, hostAddress, username, password, fault) ==
    IF fault = "secret"
    THEN [res |-> Nil, patcher |-> Nil, err |-> Some("db secret failed")]
    ELSE [res |-> Some([ID |-> "v1:Secret:default:" \o postgres.DatabaseName \o "-postgres",
                        Type |-> "Kubernetes",
                        Attributes |-> [hostAddress |-> hostAddress,
                                        username |-> username,
                                        password |-> password],
                        Extensions |-> [provider |-> "", region |-> "",
                                        resourceType |-> "Secret"]]),
          patcher |-> Some([Environments |-> <<"HOST_ADDRESS", "USERNAME", "PASSWORD">>]),
          err |-> Nil]

-----------------------------------------------------------------------------
(* PostgreSQL.GenerateAlicloudResources *)

Return(resources, patcher, err) ==
    [resources |-> resources, patcher |-> patcher, err |-> err]

\* BuildConnection without the IsPublicAccessible test: the connection is
\* built for every allow-list.
BuildConnectionAlways(postgres, alicloudProviderCfg, region, alicloudDBInstanceID, resources) ==
    LET c == generateAlicloudDBConnection(postgres, alicloudProviderCfg, region,
                                          alicloudDBInstanceID)
    IN  IF c.err # Nil
        THEN [resources |-> resources, id |-> "", err |-> c.err]
        ELSE [resources |-> Append(resources, Value(c.res)), id |-> c.id, err |-> Nil]

\* The alicloud_db_connection step: built only for a public allow-list; the
\* id stays the empty string when it is not built.
BuildConnection(postgres, alicloudProviderCfg, region, alicloudDBInstanceID, resources) ==
    IF IsPublicAccessible(postgres.SecurityIPs)
    THEN LET c == generateAlicloudDBConnection(postgres, alicloudProviderCfg, region,
                                               alicloudDBInstanceID)
         IN  IF c.err # Nil
             THEN [resources |-> resources, id |-> "", err |-> c.err]
             ELSE [resources |-> Append(resources, Value(c.res)), id |-> c.id, err |-> Nil]
    ELSE [resources |-> resources, id |-> "", err |-> Nil]

\* The host address handed to GenerateDBSecret.
HostAddress(postgres, alicloudDBInstanceID, alicloudDBConnectionID) ==
    IF ~postgres.PrivateRouting
    THEN KusionPathDependency(alicloudDBConnectionID, "connection_string")
    ELSE KusionPathDependency(alicloudDBInstanceID, "connection_string")

\* AssembleSecret returning what was built so far along with the error.
AssembleSecretPartial(postgres, resources, hostAddress, password, fault) ==
    LET s == GenerateDBSecret(postgres, hostAddress, postgres.Username, password, fault)
    IN  IF s.err # Nil
        THEN Return(Some(resources), Nil, s.err)
        ELSE Return(Some(Append(resources, Value(s.res))), s.patcher, Nil)

\* The secret step and the final return.
AssembleSecret(postgres, resources, hostAddress, password, fault) ==
    LET s == GenerateDBSecret(postgres, hostAddress, postgres.Username, password, fault)
    IN  IF s.err # Nil
        THEN Return(Nil, Nil, s.err)
        ELSE Return(Some(Append(resources, Value(s.res))), s.patcher, Nil)

GenerateAlicloudResources(postgres, env, fault) ==
    LET alicloudProviderCfg == defaultAlicloudProviderCfg
        region == IF TerraformProviderRegion(alicloudProviderCfg) = ""
                  THEN env
                  ELSE TerraformProviderRegion(alicloudProviderCfg)
        pw == GenerateTFRandomPassword(postgres, fault)
        inst == generateAlicloudDBInstance(postgres, alicloudProviderCfg, region)
        withInst == <<Value(pw.res), Value(inst.res)>>
        conn == BuildConnection(postgres, alicloudProviderCfg, region, inst.id, withInst)
        acct == generateAlicloudRDSAccount(postgres, alicloudProviderCfg, region,
                                           postgres.Username, pw.id, inst.id)
        withAcct == Append(conn.resources, Value(acct.res))
        hostAddress == HostAddress(postgres, inst.id, conn.id)
        password == KusionPathDependency(pw.id, "result")
    IN  IF region = "" THEN Return(Nil, Nil, Some(ErrEmptyAlicloudProviderRegion))
        ELSE IF pw.err # Nil THEN Return(Nil, Nil, pw.err)
        ELSE IF inst.err # Nil THEN Return(Nil, Nil, inst.err)
        ELSE IF conn.err # Nil THEN Return(Nil, Nil, conn.err)
        ELSE IF acct.err # Nil THEN Return(Nil, Nil, acct.err)
        ELSE AssembleSecret(postgres, withAcct, hostAddress, password, fault)

\* The inputs of the postgres module.
SecurityIPLists == SeqsUpTo({"0.0.0.0/0", "10.0.0.0/8"}, MaxSecurityIPs)

PostgresConfigs ==
    [DatabaseName : {"testdb"}, Username : {"admin"},
     Category : {"Basic", "serverless_basic"},
     SecurityIPs : SecurityIPLists, PrivateRouting : BOOLEAN]

Regions == {"", "cn-hangzhou"}

Faults == {"none", "password", "secret"}

NoPgRequest ==
    [postgres |-> [DatabaseName |-> "", Username |-> "", Category |-> "",
                   SecurityIPs |-> << >>, PrivateRouting |-> FALSE],
     env |-> "", fault |-> "none"]

NoPgResult == Return(Nil, Nil, Nil)

\* One call of GenerateAlicloudResources; env is the value of ALICLOUD_REGION.
GenerateAlicloud(postgres, env, fault) ==
    /\ plugin = "postgres"
    /\ pgRequest' = [postgres |-> postgres, env |-> env, fault |-> fault]
    /\ pgResult' = GenerateAlicloudResources(postgres, env, fault)
    /\ UNCHANGED <<plugin, mYAML, k8sVars>>

-----------------------------------------------------------------------------
(* Specification *)

Init ==
    /\ plugin \in {"k8s_manifest", "postgres"}
    /\ mYAML \in IF plugin = "k8s_manifest" THEN MYAMLStates ELSE {"missing"}
    /\ Paths = << >>
    /\ MergedPaths = {}
    /\ request = NoRequest
    /\ result = NoResult
    /\ visited = << >>
    /\ pgRequest = NoPgRequest
    /\ pgResult = NoPgResult

Next ==
    \/ \E req \in Requests : Generate(req)
    \/ Regenerate
    \/ Respond
    \/ \E postgres \in PostgresConfigs, env \in Regions, fault \in Faults :
           GenerateAlicloud(postgres, env, fault)

Spec == Init /\ [][Next]_vars

TypeOK ==
    /\ plugin \in {"k8s_manifest", "postgres"}
    /\ mYAML \in MYAMLStates
    /\ MergedPaths \subseteq ConfigPaths
    /\ Range(visited) \subseteq MergedPaths

-----------------------------------------------------------------------------
(* Vocabulary of the properties *)

\* A Generate call has returned and the host looks at its result.
Called == plugin = "k8s_manifest" /\ result # NoResult

Succeeded == Called /\ result.err = Nil /\ result.response # Nil

Resources == Value(result.response).Resources

PgCalled == plugin = "postgres" /\ pgResult # NoPgResult

PgSucceeded == PgCalled /\ pgResult.err = Nil /\ pgResult.resources # Nil

PgResources == Value(pgResult.resources)

ResourceTypes(resources) == [i \in DOMAIN resources |-> resources[i].Extensions.resourceType]

UniqueIDs(resources) ==
    \A i, j \in DOMAIN resources : i # j => resources[i].ID # resources[j].ID

\* The paths a config fragment supplies.
SuppliedList(config) ==
    IF config # Nil /\ Value(config).hasPaths /\ Value(config).isList
    THEN Value(config).paths
    ELSE << >>

SuppliedPaths(req) ==
    Range(SuppliedList(req.DevConfig)) \cup Range(SuppliedList(req.PlatformConfig))

WellTyped(config) == config = Nil \/ ~Value(config).hasPaths \/ Value(config).isList

\* A sequence without its repeated entries, first occurrences kept.
Distinct(s) == SelectSeq([i \in DOMAIN s |-> <<i, s[i]>>],
                         LAMBDA e : \A j \in 1..(e[1] - 1) : s[j] # e[2])

Entries(s) == [i \in DOMAIN s |-> s[i][2]]

\* Developer entries, then the platform entries that the developer list lacks.
MergedList(devPaths, platformPaths) ==
    LET D == Entries(Distinct(devPaths))
        P == Entries(Distinct(platformPaths))
    IN  D \o SelectSeq(P, LAMBDA p : p \notin Range(D))

\* The manifest files a path leads to, in the order they are read.
FilesOf(path) ==
    IF FS[path].type = "dir"
    THEN SelectSeq(FS[path].walk,
                   LAMBDA f : FS[f].type = "file" /\ ~ignoreFile(f, FileExtensions))
    ELSE <<path>>

RECURSIVE FilesInOrder(_, _)
FilesInOrder(order, i) ==
    IF i > Len(order) THEN << >> ELSE FilesOf(order[i]) \o FilesInOrder(order, i + 1)

NonBlank(docs) == SelectSeq(docs, LAMBDA d : DOMAIN d # {})

RECURSIVE DocumentsOf(_, _)
DocumentsOf(files, i) ==
    IF i > Len(files)
    THEN << >>
    ELSE NonBlank(FS[files[i]].docs) \o DocumentsOf(files, i + 1)

\* The non-empty documents of the distinct files reached, file by file in
\* the order the files were first read.
DocumentsReached(order) == DocumentsOf(Entries(Distinct(FilesInOrder(order, 1))), 1)

DeclaredID(obj) ==
    IF "namespace" \notin DOMAIN obj.metadata \/ obj.metadata.namespace = ""
    THEN obj.apiVersion \o ":" \o obj.kind \o ":" \o obj.metadata.name
    ELSE obj.apiVersion \o ":" \o obj.kind \o ":" \o obj.metadata.namespace \o ":"
             \o obj.metadata.name

\* The symbolic references a postgres resource carries, each with the output
\* attribute it asks for.
ReferencesOf(res) ==
    CASE res.Extensions.resourceType = alicloudDBConnection ->
             {<<res.Attributes.instance_id, "id">>}
      [] res.Extensions.resourceType = alicloudRDSAccount ->
             {<<res.Attributes.account_password, "result">>,
              <<res.Attributes.db_instance_id, "id">>}
      [] res.Extensions.resourceType = "Secret" ->
             {<<res.Attributes.hostAddress, "connection_string">>,
              <<res.Attributes.password, "result">>}
      [] OTHER -> {}

ResolvesEarlier(resources, i) ==
    \A ref \in ReferencesOf(resources[i]) :
        \E j \in 1..(i - 1) :
            /\ resources[j].ID # ""
            /\ ref[1] = KusionPathDependency(resources[j].ID, ref[2])

SecretOf(resources) == resources[Len(resources)]

-----------------------------------------------------------------------------
(* Properties *)

\* C1: in every successful output of GenerateAlicloudResources each symbolic
\* reference of a resource (the connection's instance_id, the account's
\* account_password and db_instance_id, the secret's host address and
\* password) names the non-empty id of a resource that stands earlier in the
\* returned sequence.
C1_ReferencesResolve ==
    PgSucceeded => \A i \in DOMAIN PgResources : ResolvesEarlier(PgResources, i)

\* C2: the host address of the secret is the reference to connection_string
\* of the primary instance when PrivateRouting is true, and of a
\* public-connection resource present in the output when it is false.
C2_HostAddressSelection ==
    PgSucceeded =>
        IF pgRequest.postgres.PrivateRouting
        THEN \E i \in DOMAIN PgResources :
                /\ PgResources[i].Extensions.resourceType = alicloudDBInstance
                /\ SecretOf(PgResources).Attributes.hostAddress =
                       KusionPathDependency(PgResources[i].ID, "connection_string")
        ELSE \E i \in DOMAIN PgResources :
                /\ PgResources[i].Extensions.resourceType = alicloudDBConnection
                /\ SecretOf(PgResources).Attributes.hostAddress =
                       KusionPathDependency(PgResources[i].ID, "connection_string")

\* C3: a successful GenerateAlicloudResources returns exactly password,
\* instance, public connection, account, secret in that order, the public
\* connection being there if and only if the allow-list is public.
C3_ResourceSequence ==
    PgSucceeded =>
        ResourceTypes(PgResources) =
            IF IsPublicAccessible(pgRequest.postgres.SecurityIPs)
            THEN <<"random_password", alicloudDBInstance, alicloudDBConnection,
                   alicloudRDSAccount, "Secret">>
            ELSE <<"random_password", alicloudDBInstance, alicloudRDSAccount, "Secret">>

\* C3 witness: a successful build for a public allow-list, five resources long.
C3_Witness ==
    /\ PgSucceeded
    /\ IsPublicAccessible(pgRequest.postgres.SecurityIPs)
    /\ Len(PgResources) = 5

\* C4: a return with an error carries no resources: Generate returns a nil
\* response, GenerateAlicloudResources nil resources and a nil patcher; a
\* document without a kind surfaces as (nil, panic error).
C4_NoPartialResult ==
    /\ Called /\ result.err # Nil => result.response = Nil
    /\ PgCalled /\ pgResult.err # Nil =>
           pgResult.resources = Nil /\ pgResult.patcher = Nil
    /\ Called /\ mYAML = "nokind" /\ "m.yaml" \in MergedPaths /\ WellTyped(request.DevConfig)
           /\ WellTyped(request.PlatformConfig) =>
           result = [response |-> Nil, err |-> PanicError]

\* C4 witness: Generate has recovered from the panic of a document without
\* a kind, after the documents of other files had been collected.
C4_Witness ==
    /\ Called
    /\ result.err = PanicError
    /\ result.response = Nil
    /\ Len(visited) > 1

\* C5: a Generate call visits only paths that its own developer and platform
\* config supply.
C5_InvocationIndependence ==
    Called => Range(visited) \subseteq SuppliedPaths(request)

\* C6: no two resources of a successful response have the same id.
C6_UniqueIDs ==
    /\ Succeeded => UniqueIDs(Resources)
    /\ PgSucceeded => UniqueIDs(PgResources)

\* C7: a Generate call whose configs together supply no manifest path returns
\* the validation error of ValidateConfig and no response.
C7_EmptyPathsRejected ==
    Called /\ WellTyped(request.DevConfig) /\ WellTyped(request.PlatformConfig)
        /\ SuppliedPaths(request) = {} =>
        result = [response |-> Nil, err |-> ValidateConfig({})]

\* C8: the merged paths, as Generate goes through them, are the developer's
\* entries in their order followed by the platform's entries that the
\* developer did not declare, in their order.
C8_MergePrecedence ==
    Called /\ WellTyped(request.DevConfig) /\ WellTyped(request.PlatformConfig)
        /\ Len(visited) = Cardinality(MergedPaths) =>
        visited = MergedList(SuppliedList(request.DevConfig),
                             SuppliedList(request.PlatformConfig))

\* C9: two runs of Generate on the same merged paths and the same files return
\* the same resource sequence, and a returned sequence lists the documents
\* file by file in the order the files were read.
C9_DeterministicOrder ==
    [][/\ (Succeeded /\ Succeeded' /\ MergedPaths' = MergedPaths) => result' = result
       /\ Succeeded' =>
              [i \in DOMAIN Resources' |-> Resources'[i].Attributes] = DocumentsReached(visited')
      ]_vars

\* C10: a successful Generate returns one resource per non-empty document of
\* the distinct files reached, each with the id apiVersion:kind:name, or
\* apiVersion:kind:namespace:name when the document has a non-empty namespace.
C10_OneResourcePerDocument ==
    Succeeded =>
        /\ Len(Resources) = Len(DocumentsReached(visited))
        /\ \A i \in DOMAIN Resources : Resources[i].ID = DeclaredID(Resources[i].Attributes)

====
